---------------------------- MODULE Spec2Model ----------------------------
(***************************************************************************)
(* A model of deepseek-cli-rs: the turn controller of src/main.rs          *)
(* (run_chat, handle_stream, handle_tool_calls) and the tool handlers of   *)
(* src/tools.rs (execute_tool and the patch engine in particular).         *)
(*                                                                         *)
(* Text is modelled as a sequence of one-character strings, so that the    *)
(* string operations of the code (lines, trim, strip_prefix, splitn, find, *)
(* contains, replace, join, slicing) are computed and not assumed.         *)
(* Option<T> is modelled as a sequence of length at most one.              *)
(***************************************************************************)
EXTENDS Integers, Sequences, FiniteSets, TLC

(***************************************************************************)
(* Bounds of the model.                                                    *)
(***************************************************************************)
\* Message ids handed out by the completion service are 1..MaxMsgId.
MaxMsgId == 2
\* Assistant texts of the parser specification have at most MaxLines lines.
MaxLines == 3
\* Patch arguments of the patch specification hold at most MaxBlocks blocks.
MaxBlocks == 2
\* Block texts of the syntax specification are made of at most MaxTokens tokens.
MaxTokens == 4

(***************************************************************************)
(* Evaluation.  An operator of the model takes its arguments by value, as  *)
(* a function of the code does: Strict(F, x) is F(x) with x evaluated      *)
(* once, before F uses it.  The value is that of F(x).                     *)
(***************************************************************************)
Strict(F(_), x) == CHOOSE r \in {F(v) : v \in {x}} : TRUE
Strict2(F(_, _), x, y) == CHOOSE r \in {F(v, w) : v \in {x}, w \in {y}} : TRUE
Strict3(F(_, _, _), x, y, z) ==
    CHOOSE r \in {F(u, v, w) : u \in {x}, v \in {y}, w \in {z}} : TRUE

(***************************************************************************)
(* Option<T>.                                                              *)
(***************************************************************************)
None == <<>>
Some(v) == <<v>>
IsSome(o) == Len(o) = 1
Unwrap(o) == o[1]

(***************************************************************************)
(* Literals of the code.                                                   *)
(***************************************************************************)
NL == <<"\n">>
SPACE == <<" ">>
EMPTY == <<>>
TOOL_PREFIX == <<"T", "O", "O", "L", ":">>
SEARCH_MARKER == <<"<", "<", "<", "<", "<", "<", "<", " ", "S", "E", "A", "R", "C", "H">>
SEPARATOR_MARKER == <<"=", "=", "=", "=", "=", "=", "=">>
REPLACE_MARKER == <<">", ">", ">", ">", ">", ">", ">", " ", "R", "E", "P", "L", "A", "C", "E">>
EXIT_COMMAND == <<"/", "e", "x", "i", "t">>
\* The offsets the patch parser adds to the position of a marker it found.
SearchSkip == 15
SeparatorSkip == 7
ReplaceSkip == 15
\* The offset strip_prefix("TOOL:") removes.
PrefixLen == 5

N_list_files == <<"l", "i", "s", "t", "_", "f", "i", "l", "e", "s">>
N_read_file == <<"r", "e", "a", "d", "_", "f", "i", "l", "e">>
N_create_directory == <<"c", "r", "e", "a", "t", "e", "_", "d", "i", "r", "e", "c", "t", "o", "r", "y">>
N_apply_search_replace == <<"a", "p", "p", "l", "y", "_", "s", "e", "a", "r", "c", "h", "_", "r", "e", "p", "l", "a", "c", "e">>
N_run_command == <<"r", "u", "n", "_", "c", "o", "m", "m", "a", "n", "d">>
N_write_file == <<"w", "r", "i", "t", "e", "_", "f", "i", "l", "e">>
N_search_web == <<"s", "e", "a", "r", "c", "h", "_", "w", "e", "b">>
N_fetch_url == <<"f", "e", "t", "c", "h", "_", "u", "r", "l">>
\* The keys of the registry TOOLS.
TOOLS == {N_list_files, N_read_file, N_create_directory, N_apply_search_replace,
          N_run_command, N_write_file, N_search_web, N_fetch_url}

(***************************************************************************)
(* The string operations of the standard library that the code uses.      *)
(* Offsets are 0-based as in the code; a search that finds nothing is -1.  *)
(***************************************************************************)
\* char::is_whitespace, on the characters of the model.
IsWhitespace(c) == c \in {" ", "\t", "\n", "\r"}

\* &s[n..]
Drop(s, n) == LET B(t, k) == SubSeq(t, k + 1, Len(t)) IN Strict2(B, s, n)

\* &s[..n]
Take(s, n) == SubSeq(s, 1, n)

RECURSIVE TrimStart(_)
TrimStart(s) ==
    LET B(t) == IF t # <<>> /\ IsWhitespace(Head(t)) THEN TrimStart(Tail(t)) ELSE t
    IN  Strict(B, s)

RECURSIVE TrimEnd(_)
TrimEnd(s) ==
    LET B(t) == IF t # <<>> /\ IsWhitespace(t[Len(t)]) THEN TrimEnd(Take(t, Len(t) - 1))
                ELSE t
    IN  Strict(B, s)

\* str::trim
Trim(s) == TrimEnd(TrimStart(s))

\* str::starts_with
StartsWith(s, p) ==
    LET B(t, q) == Len(t) >= Len(q) /\ Take(t, Len(q)) = q IN Strict2(B, s, p)

\* The offset of the first occurrence of p in s at or after i, or -1.
FindFrom(s, p, i) ==
    LET B(t, q, k) ==
          LET hits == {h \in k..(Len(t) - Len(q)) : SubSeq(t, h + 1, h + Len(q)) = q}
          IN  IF hits = {} THEN -1 ELSE CHOOSE h \in hits : \A j \in hits : h <= j
    IN  Strict3(B, s, p, i)

\* str::find: the offset of the first occurrence of p in s, or -1.
Find(s, p) == LET B(t, q) == FindFrom(t, q, 0) IN Strict2(B, s, p)

\* str::contains
Contains(s, p) == Find(s, p) >= 0

\* A line of str::lines loses the carriage return of a "\r\n" ending.
StripCr(l) ==
    LET B(t) == IF t # <<>> /\ t[Len(t)] = "\r" THEN Take(t, Len(t) - 1) ELSE t
    IN  Strict(B, l)

\* str::lines: split at "\n"; a final empty piece is no line.
RECURSIVE Lines(_)
Lines(s) ==
    LET B(t, n) == IF t = <<>> THEN <<>>
                   ELSE IF n < 0 THEN <<t>>
                   ELSE <<StripCr(Take(t, n))>> \o Lines(Drop(t, n + 1))
    IN  Strict2(B, s, Find(s, NL))

\* [&str]::join
RECURSIVE Join(_, _)
Join(parts, sep) ==
    LET B(ps, sp) == IF ps = <<>> THEN <<>>
                     ELSE IF Len(ps) = 1 THEN ps[1]
                     ELSE ps[1] \o sp \o Join(Tail(ps), sp)
    IN  Strict2(B, parts, sep)

\* The two items splitn(2, ' ') yields, the second "" when there is no space
\* (unwrap_or("")).
SplitN2(s) ==
    LET B(t, n) == IF n < 0 THEN <<t, EMPTY>> ELSE <<Take(t, n), Drop(t, n + 1)>>
    IN  Strict2(B, s, Find(s, SPACE))

\* str::replace with only the first match replaced (str::replacen(.., 1)).
ReplaceFirst(s, from, to) ==
    LET B(t, n) == IF n < 0 THEN t ELSE Take(t, n) \o to \o Drop(t, n + Len(from))
    IN  Strict2(B, s, Find(s, from))

\* str::replace: every non-overlapping match, left to right; the empty
\* pattern matches before every character and at the end.
RECURSIVE ReplaceAll(_, _, _)
ReplaceAll(s, from, to) ==
    LET B(t, f, n) ==
          IF f = <<>>
          THEN IF t = <<>> THEN to ELSE to \o <<Head(t)>> \o ReplaceAll(Tail(t), f, to)
          ELSE IF n < 0 THEN t
          ELSE Take(t, n) \o to \o ReplaceAll(Drop(t, n + Len(f)), f, to)
    IN  Strict3(B, s, from, Find(s, from))

(***************************************************************************)
(* The tool directive parser: the first loop of handle_tool_calls.        *)
(***************************************************************************)
\* A line that holds the prefix anywhere.
HoldsPrefix(l) == Contains(l, TOOL_PREFIX)

\* A line that opens an invocation.
IsMarkerLine(l) == StartsWith(Trim(l), TOOL_PREFIX)

\* The index of the first marker line at or after i, or Len(lines) + 1:
\* where the inner while loop that collects body_lines stops.
RECURSIVE BodyEnd(_, _)
BodyEnd(lines, i) ==
    LET B(ls, k) == IF k <= Len(ls) /\ ~IsMarkerLine(ls[k]) THEN BodyEnd(ls, k + 1) ELSE k
    IN  Strict2(B, lines, i)

\* full_arg with the branch for an empty first_arg left out.
FullArgNoFix(first_arg, body) ==
    IF body = <<>> THEN first_arg ELSE first_arg \o NL \o body

\* full_arg
FullArg(first_arg, body) ==
    IF body = <<>> THEN first_arg
    ELSE IF first_arg = <<>> THEN body
    ELSE first_arg \o NL \o body

\* The invocation a marker line at index i opens: <<tool_name, full_arg>>.
Invocation(lines, i) ==
    LET B(parts, body) == <<parts[1], FullArg(parts[2], body)>>
    IN  Strict2(B, SplitN2(Trim(Drop(Trim(lines[i]), PrefixLen))),
                Join(SubSeq(lines, i + 1, BodyEnd(lines, i + 1) - 1), NL))

RECURSIVE ParseFrom(_, _, _)
ParseFrom(lines, i, invocations) ==
    LET B(ls, k, invs) ==
          IF k > Len(ls) THEN invs
          ELSE IF IsMarkerLine(ls[k])
               THEN ParseFrom(ls, BodyEnd(ls, k + 1), Append(invs, Invocation(ls, k)))
               ELSE ParseFrom(ls, k + 1, invs)
    IN  Strict3(B, lines, i, invocations)

\* The invocations of an assistant text, in textual order.
ParseInvocations(content) == ParseFrom(Lines(content), 1, <<>>)

(***************************************************************************)
(* Tool results and the file system.                                       *)
(*                                                                         *)
(* A Result<String> is a record: tag "Ok" with the output in text; tag     *)
(* "Err" with the kind of the error, the file it names and the text it     *)
(* quotes; tag "Panic" when the handler panics instead of returning.       *)
(* The file system maps the path of every file to its content and holds    *)
(* the set of directories.                                                 *)
(***************************************************************************)
Ok(text) == [tag |-> "Ok", kind |-> "", file |-> EMPTY, text |-> text]
Err(kind, file, text) == [tag |-> "Err", kind |-> kind, file |-> file, text |-> text]
Panic(kind) == [tag |-> "Panic", kind |-> kind, file |-> EMPTY, text |-> EMPTY]

\* What a handler returns and leaves behind: its result, the file system
\* after it, and the number of writes of file content it made.
Outcome(res, fs, writes) == [res |-> res, fs |-> fs, writes |-> writes]

Exists(fs, path) == path \in DOMAIN fs.files

\* fs::write
WriteFile(fs, path, content) ==
    [fs EXCEPT !.files = [q \in DOMAIN fs.files \cup {path} |->
                             IF q = path THEN content ELSE fs.files[q]]]

DIGITS == <<"0", "1", "2", "3", "4", "5", "6", "7", "8", "9">>

RECURSIVE NatToStr(_)
NatToStr(n) ==
    LET B(k) == IF k < 10 THEN <<DIGITS[k + 1]>>
                ELSE NatToStr(k \div 10) \o <<DIGITS[(k % 10) + 1]>>
    IN  Strict(B, n)

\* The decimal text format!("{n}") gives an integer.
ToDecimal(n) == IF n < 0 THEN <<"-">> \o NatToStr(-n) ELSE NatToStr(n)

\* Path::parent, on relative paths with "/" as the separator.
RECURSIVE Parent(_)
Parent(path) ==
    LET B(pt) == IF pt = <<>> THEN <<>>
                 ELSE IF pt[Len(pt)] = "/" THEN Take(pt, Len(pt) - 1)
                 ELSE Parent(Take(pt, Len(pt) - 1))
    IN  Strict(B, path)

\* The last component of a path.
FileName(path) ==
    LET B(pt, par) == IF par = <<>> THEN pt ELSE Drop(pt, Len(par) + 1)
    IN  Strict2(B, path, Parent(path))

\* A path and all its ancestors: what create_dir_all creates.
RECURSIVE Ancestors(_)
Ancestors(path) ==
    LET B(pt) == IF pt = <<>> THEN {} ELSE {pt} \cup Ancestors(Parent(pt))
    IN  Strict(B, path)

\* The characters of file names, in the order str's Ord compares them.
CharOrder == <<"-", ".", "/", "0", "1", "2", "3", "4", "5", "6", "7", "8", "9", "_",
               "a", "b", "c", "d", "e", "f", "g", "h", "i", "j", "k", "l", "m",
               "n", "o", "p", "q", "r", "s", "t", "u", "v", "w", "x", "y", "z">>
Rank(c) == IF \E i \in 1..Len(CharOrder) : CharOrder[i] = c
           THEN CHOOSE i \in 1..Len(CharOrder) : CharOrder[i] = c
           ELSE 0

RECURSIVE LexLess(_, _)
LexLess(a, b) ==
    LET B(x, y) == IF y = <<>> THEN FALSE
                   ELSE IF x = <<>> THEN TRUE
                   ELSE IF Head(x) = Head(y) THEN LexLess(Tail(x), Tail(y))
                   ELSE Rank(Head(x)) < Rank(Head(y))
    IN  Strict2(B, a, b)

\* names.sort()
RECURSIVE SortNames(_)
SortNames(names) ==
    LET B(ns) ==
          IF ns = {} THEN <<>>
          ELSE LET Rest(least) == <<least>> \o SortNames(ns \ {least})
               IN  Strict(Rest, CHOOSE n \in ns : \A m \in ns \ {n} : LexLess(n, m))
    IN  Strict(B, names)

(***************************************************************************)
(* The tool handlers of src/tools.rs.                                      *)
(***************************************************************************)
DIRECTORY_CREATED == <<"D", "i", "r", "e", "c", "t", "o", "r", "y", " ", "c", "r", "e", "a", "t", "e", "d", ":", " ">>
FILE_WRITTEN == <<"F", "i", "l", "e", " ", "w", "r", "i", "t", "t", "e", "n", ":", " ">>
APPLIED == <<"A", "p", "p", "l", "i", "e", "d", " ">>
BLOCKS_TO == <<" ", "b", "l", "o", "c", "k", "(", "s", ")", " ", "t", "o", " ">>
DOT == <<".">>

\* The directory a path names, the current directory being "" in Parent.
DirKey(arg) == IF arg = DOT THEN EMPTY ELSE arg

list_files_handler(arg, fs) ==
    IF arg \notin fs.dirs
    THEN Outcome(Err("NotADirectory", arg, EMPTY), fs, 0)
    ELSE Outcome(Ok(Join(SortNames({FileName(q) :
                                      q \in {q \in DOMAIN fs.files \cup fs.dirs :
                                                q # DOT /\ Parent(q) = DirKey(arg)}}),
                         NL)),
                 fs, 0)

read_file_handler(arg, fs) ==
    IF Exists(fs, arg) THEN Outcome(Ok(fs.files[arg]), fs, 0)
    ELSE Outcome(Err("Io", arg, EMPTY), fs, 0)

create_directory_handler(arg, fs) ==
    IF \E d \in Ancestors(arg) : Exists(fs, d)
    THEN Outcome(Err("Io", arg, EMPTY), fs, 0)
    ELSE Outcome(Ok(DIRECTORY_CREATED \o arg),
                 [fs EXCEPT !.dirs = @ \cup Ancestors(arg)], 0)

\* The loop leaving at a block that does not parse, with the blocks before
\* it.
RECURSIVE ParseBlocksLenient(_, _)
ParseBlocksLenient(remaining, blocks) ==
    LET AfterEq(after_eq, replace_end, search) ==
          IF replace_end < 0 THEN [status |-> "Ok", blocks |-> blocks]
          ELSE ParseBlocksLenient(Drop(after_eq, replace_end + ReplaceSkip),
                                  Append(blocks, <<search, Trim(Take(after_eq, replace_end))>>))
        AfterSearch(after_search, search_end) ==
          IF search_end < 0 THEN [status |-> "Ok", blocks |-> blocks]
          ELSE LET C(after_eq) ==
                     AfterEq(after_eq, Find(after_eq, REPLACE_MARKER),
                             Trim(Take(after_search, search_end)))
               IN  Strict(C, Drop(after_search, search_end + SeparatorSkip))
        B(rem, search_start) ==
          IF search_start < 0 \/ search_start + SearchSkip > Len(rem)
          THEN [status |-> "Ok", blocks |-> blocks]
          ELSE LET C(after_search) ==
                     Strict2(AfterSearch, after_search, Find(after_search, SEPARATOR_MARKER))
               IN  Strict(C, Drop(rem, search_start + SearchSkip))
    IN  Strict2(B, remaining, Find(remaining, SEARCH_MARKER))

\* The blocks of a patch argument: the while loop of
\* apply_search_replace_handler.  status is "Ok", the marker that is missing,
\* or "Panic": the slice remaining[search_start + 15..] panics when fewer
\* than 15 characters follow the start of the marker.
RECURSIVE ParseBlocks(_, _)
ParseBlocks(remaining, blocks) ==
    LET AfterEq(after_eq, replace_end, search) ==
          IF replace_end < 0 THEN [status |-> "MissingReplace", blocks |-> blocks]
          ELSE ParseBlocks(Drop(after_eq, replace_end + ReplaceSkip),
                           Append(blocks, <<search, Trim(Take(after_eq, replace_end))>>))
        AfterSearch(after_search, search_end) ==
          IF search_end < 0 THEN [status |-> "MissingSeparator", blocks |-> blocks]
          ELSE LET C(after_eq) ==
                     AfterEq(after_eq, Find(after_eq, REPLACE_MARKER),
                             Trim(Take(after_search, search_end)))
               IN  Strict(C, Drop(after_search, search_end + SeparatorSkip))
        B(rem, search_start) ==
          IF search_start < 0 THEN [status |-> "Ok", blocks |-> blocks]
          ELSE IF search_start + SearchSkip > Len(rem)
          THEN [status |-> "Panic", blocks |-> blocks]
          ELSE LET C(after_search) ==
                     Strict2(AfterSearch, after_search, Find(after_search, SEPARATOR_MARKER))
               IN  Strict(C, Drop(rem, search_start + SearchSkip))
    IN  Strict2(B, remaining, Find(remaining, SEARCH_MARKER))

\* One block applied to its first match only.
ApplyBlockOnce(content, search, replace) == ReplaceFirst(content, search, replace)

\* One block applied to the content in memory.
ApplyBlock(content, search, replace) == ReplaceAll(content, search, replace)

\* The for loop over the blocks: the content after the blocks from i on, or
\* the search text of the first block that is not found.
RECURSIVE ApplyBlocks(_, _, _)
ApplyBlocks(content, blocks, i) ==
    LET B(c, bs, k) ==
          IF k > Len(bs) THEN [found |-> TRUE, content |-> c]
          ELSE IF ~Contains(c, bs[k][1]) THEN [found |-> FALSE, content |-> bs[k][1]]
          ELSE ApplyBlocks(ApplyBlock(c, bs[k][1], bs[k][2]), bs, k + 1)
    IN  Strict3(B, content, blocks, i)

\* The blocks applied with the file written after each of them.
RECURSIVE WriteEachBlock(_, _, _, _, _)
WriteEachBlock(file_path, blocks, i, fs, writes) ==
    IF i > Len(blocks)
    THEN Outcome(Ok(APPLIED \o ToDecimal(Len(blocks)) \o BLOCKS_TO \o file_path), fs, writes)
    ELSE IF ~Contains(fs.files[file_path], blocks[i][1])
    THEN Outcome(Err("SearchNotFound", file_path, blocks[i][1]), fs, writes)
    ELSE WriteEachBlock(file_path, blocks, i + 1,
                        WriteFile(fs, file_path,
                                  ApplyBlock(fs.files[file_path], blocks[i][1], blocks[i][2])),
                        writes + 1)

ApplyAndWriteEach(file_path, blocks, fs) == WriteEachBlock(file_path, blocks, 1, fs, 0)

\* What the handler does once the blocks are parsed and the file is read:
\* the blocks are applied in memory and the file is written once.
ApplyAndWrite(file_path, blocks, fs) ==
    LET B(bs, applied) ==
          IF ~applied.found
          THEN Outcome(Err("SearchNotFound", file_path, applied.content), fs, 0)
          ELSE Outcome(Ok(APPLIED \o ToDecimal(Len(bs)) \o BLOCKS_TO \o file_path),
                       WriteFile(fs, file_path, applied.content), 1)
    IN  Strict2(B, blocks, ApplyBlocks(fs.files[file_path], blocks, 1))

apply_search_replace_handler(arg, fs) ==
    LET Parsed(file_path, parsed) ==
          IF parsed.status = "Panic"
          THEN Outcome(Panic("slice index out of range"), fs, 0)
          ELSE IF parsed.status # "Ok"
          THEN Outcome(Err(parsed.status, EMPTY, EMPTY), fs, 0)
          ELSE IF parsed.blocks = <<>>
          THEN Outcome(Err("NoBlocks", EMPTY, EMPTY), fs, 0)
          ELSE IF ~Exists(fs, file_path)
          THEN Outcome(Err("Io", file_path, EMPTY), fs, 0)
          ELSE ApplyAndWrite(file_path, parsed.blocks, fs)
        B(lines) ==
          IF lines = <<>> THEN Outcome(Err("MissingFilePath", EMPTY, EMPTY), fs, 0)
          ELSE Strict2(Parsed, lines[1], ParseBlocks(Join(Tail(lines), NL), <<>>))
    IN  Strict(B, Lines(arg))

write_file_handler(arg, fs) ==
    LET Write(file_path, content, parents) ==
          IF (\E d \in parents : Exists(fs, d)) \/ file_path \in fs.dirs
             \/ file_path = <<>>
          THEN Outcome(Err("Io", file_path, EMPTY), fs, 0)
          ELSE Outcome(Ok(FILE_WRITTEN \o file_path),
                       WriteFile([fs EXCEPT !.dirs = @ \cup parents], file_path, content),
                       1)
        B(lines) ==
          IF lines = <<>> THEN Outcome(Err("MissingFilePath", EMPTY, EMPTY), fs, 0)
          ELSE Strict3(Write, lines[1], Join(Tail(lines), NL), Ancestors(Parent(lines[1])))
    IN  Strict(B, Lines(arg))

(***************************************************************************)
(* The handlers that reach outside the process.  What the shell, the       *)
(* network and the search engine answer is the environment's choice: a     *)
(* record env with                                                         *)
(*   spawn: the child process was spawned; code: its exit code, None when  *)
(*   a signal ended it; stdout, stderr: what it wrote (lossily decoded);   *)
(*   net: the request got a response; success: the status is 2xx;          *)
(*   html: the body; results: the result blocks extracted from the body,   *)
(*   each already formatted.                                               *)
(***************************************************************************)
EXIT_CODE_PREFIX == <<"E", "X", "I", "T", "_", "C", "O", "D", "E", ":">>
STDOUT_HEADER == <<"s", "t", "d", "o", "u", "t", ":", "\n">>
STDERR_HEADER == <<"s", "t", "d", "e", "r", "r", ":", "\n">>
NO_OUTPUT_TEXT == <<"C", "o", "m", "m", "a", "n", "d", " ", "e", "x", "e", "c", "u", "t", "e", "d", " ", "s", "u", "c", "c", "e", "s", "s", "f", "u", "l", "l", "y", " ", "(", "n", "o", " ", "o", "u", "t", "p", "u", "t", ")">>
CAPTCHA == <<"c", "a", "p", "t", "c", "h", "a">>
UNUSUAL_TRAFFIC == <<"u", "n", "u", "s", "u", "a", "l", " ", "t", "r", "a", "f", "f", "i", "c">>
BLOCKED == <<"b", "l", "o", "c", "k", "e", "d">>
NO_RESULTS == <<"N", "o", " ", "r", "e", "s", "u", "l", "t", "s">>
NO_RESULTS_LOWER == <<"n", "o", " ", "r", "e", "s", "u", "l", "t", "s", " ", "f", "o", "u", "n", "d">>
NO_RESULTS_FOUND == <<"N", "o", " ", "r", "e", "s", "u", "l", "t", "s", " ", "f", "o", "u", "n", "d", " ", "f", "o", "r", " ", "t", "h", "e", " ", "q", "u", "e", "r", "y", ".">>
NO_RESULTS_EXTRACTED == <<"N", "o", " ", "r", "e", "s", "u", "l", "t", "s", " ", "c", "o", "u", "l", "d", " ", "b", "e", " ", "e", "x", "t", "r", "a", "c", "t", "e", "d", " ", "f", "r", "o", "m", " ", "t", "h", "e", " ", "s", "e", "a", "r", "c", "h", " ", "p", "a", "g", "e", ".", " ", "T", "h", "e", " ", "p", "a", "g", "e", " ", "s", "t", "r", "u", "c", "t", "u", "r", "e", " ", "m", "a", "y", " ", "h", "a", "v", "e", " ", "c", "h", "a", "n", "g", "e", "d", ".">>
UPPER == <<"A", "B", "C", "D", "E", "F", "G", "H", "I", "J", "K", "L", "M", "N", "O", "P", "Q", "R", "S", "T", "U", "V", "W", "X", "Y", "Z">>
LOWER == <<"a", "b", "c", "d", "e", "f", "g", "h", "i", "j", "k", "l", "m", "n", "o", "p", "q", "r", "s", "t", "u", "v", "w", "x", "y", "z">>

\* char::to_lowercase, on the letters of the model.
LowerChar(c) == IF \E i \in 1..Len(UPPER) : UPPER[i] = c
                THEN LOWER[CHOOSE i \in 1..Len(UPPER) : UPPER[i] = c]
                ELSE c

\* str::to_lowercase
ToLowercase(s) == [i \in 1..Len(s) |-> LowerChar(s[i])]

\* output.status.code().unwrap_or(-1)
ExitCode(code) == IF IsSome(code) THEN Unwrap(code) ELSE -1

\* The envelope with the stderr section set right after the stdout text.
EnvelopeNoSeparator(exit_code, stdout, stderr) ==
    EXIT_CODE_PREFIX \o ToDecimal(exit_code) \o NL
    \o (IF stdout # <<>> THEN STDOUT_HEADER \o stdout ELSE <<>>)
    \o (IF stderr # <<>> THEN STDERR_HEADER \o stderr ELSE <<>>)
    \o (IF stdout = <<>> /\ stderr = <<>> THEN NO_OUTPUT_TEXT ELSE <<>>)

\* The result envelope of a command that ran.
Envelope(exit_code, stdout, stderr) ==
    EXIT_CODE_PREFIX \o ToDecimal(exit_code) \o NL
    \o (IF stdout # <<>> THEN STDOUT_HEADER \o stdout ELSE <<>>)
    \o (IF stderr # <<>>
        THEN (IF stdout # <<>> THEN NL \o NL ELSE <<>>) \o STDERR_HEADER \o stderr
        ELSE <<>>)
    \o (IF stdout = <<>> /\ stderr = <<>> THEN NO_OUTPUT_TEXT ELSE <<>>)

\* A handler that takes a non-zero exit status for a failure.
run_command_checking_status(arg, fs, env) ==
    IF ~env.spawn \/ ExitCode(env.code) # 0 THEN Outcome(Err("Spawn", EMPTY, EMPTY), fs, 0)
    ELSE Outcome(Ok(Envelope(ExitCode(env.code), env.stdout, env.stderr)), fs, 0)

run_command_handler(arg, fs, env) ==
    IF ~env.spawn THEN Outcome(Err("Spawn", EMPTY, EMPTY), fs, 0)
    ELSE Outcome(Ok(Envelope(ExitCode(env.code), env.stdout, env.stderr)), fs, 0)

fetch_url_handler(arg, fs, env) ==
    LET B(url) ==
        IF url = <<>> THEN Outcome(Err("EmptyUrl", EMPTY, EMPTY), fs, 0)
        ELSE IF ~env.net THEN Outcome(Err("Network", EMPTY, url), fs, 0)
        ELSE IF ~env.success THEN Outcome(Err("Http", EMPTY, url), fs, 0)
        ELSE Outcome(Ok(env.html), fs, 0)
    IN  Strict(B, Trim(arg))

search_web_handler(arg, fs, env) ==
    LET B(query, lower) ==
        IF query = <<>> THEN Outcome(Err("EmptyQuery", EMPTY, EMPTY), fs, 0)
        ELSE IF ~env.net THEN Outcome(Err("Network", EMPTY, EMPTY), fs, 0)
        ELSE IF ~env.success
        THEN IF Contains(lower, CAPTCHA) \/ Contains(lower, UNUSUAL_TRAFFIC)
                \/ Contains(lower, BLOCKED)
             THEN Outcome(Err("Blocked", EMPTY, EMPTY), fs, 0)
             ELSE Outcome(Err("Http", EMPTY, EMPTY), fs, 0)
        ELSE IF env.results = <<>>
        THEN IF Contains(env.html, NO_RESULTS) \/ Contains(env.html, NO_RESULTS_LOWER)
             THEN Outcome(Ok(NO_RESULTS_FOUND), fs, 0)
             ELSE Outcome(Ok(NO_RESULTS_EXTRACTED), fs, 0)
        ELSE Outcome(Ok(Join(env.results, NL)), fs, 0)
    IN  Strict2(B, Trim(arg), ToLowercase(env.html))

\* execute_tool: the handler the registry holds for the name, or the error
\* for a name it does not hold.
execute_tool(name, arg, fs, env) ==
    IF name = N_list_files THEN list_files_handler(arg, fs)
    ELSE IF name = N_read_file THEN read_file_handler(arg, fs)
    ELSE IF name = N_create_directory THEN create_directory_handler(arg, fs)
    ELSE IF name = N_apply_search_replace THEN apply_search_replace_handler(arg, fs)
    ELSE IF name = N_run_command THEN run_command_handler(arg, fs, env)
    ELSE IF name = N_write_file THEN write_file_handler(arg, fs)
    ELSE IF name = N_search_web THEN search_web_handler(arg, fs, env)
    ELSE IF name = N_fetch_url THEN fetch_url_handler(arg, fs, env)
    ELSE Outcome(Err("UnknownTool", EMPTY, name), fs, 0)

(***************************************************************************)
(* The inputs of the model: what the user types, what the completion       *)
(* service streams and what the environment answers.                       *)
(***************************************************************************)
F == <<"f">>
AB == <<"a", "b">>
CD == <<"c", "d">>
XY == <<"x", "y">>
ZZ == <<"z", "z">>
HI == <<"h", "i">>

\* One edit block as the model writes it in a patch argument.
Block(search, replace) ==
    SEARCH_MARKER \o NL \o search \o NL \o SEPARATOR_MARKER \o NL \o replace \o NL
    \o REPLACE_MARKER

\* A marker line: "TOOL: <name> <first-fragment>".
ToolLine(name, first_arg) == TOOL_PREFIX \o SPACE \o name \o SPACE \o first_arg

\* The contents of the final messages the completion service sends.
Replies ==
    { EMPTY,
      <<" ", "\n">>,
      <<"n", "o", " ">> \o TOOL_PREFIX \o <<" ", "x">>,
      ToolLine(N_read_file, F),
      ToolLine(N_run_command, <<"l", "s">>),
      ToolLine(<<"n", "o", "p", "e">>, <<"x">>) \o NL
          \o ToolLine(N_write_file, F) \o NL \o AB \o NL \o CD,
      ToolLine(N_apply_search_replace, F) \o NL \o Block(AB, XY),
      ToolLine(N_apply_search_replace, F) \o NL \o Block(CD, XY) \o NL \o Block(ZZ, AB)
          \o NL \o ToolLine(N_read_file, F),
      ToolLine(N_apply_search_replace, F) \o NL \o SEARCH_MARKER }

\* Option<i64>: the ids a final message may carry.
MessageIds == {None} \cup {Some(i) : i \in 1..MaxMsgId}

\* Message
Messages == [message_id : MessageIds, content : Replies]

Chunk(kind, msg) == [kind |-> kind, msg |-> msg]

\* What a completion request may stream: content then the final message, or
\* content and no final message at all.
Streams ==
    {<<Chunk("Content", None), Chunk("Message", Some(m))>> : m \in Messages}
    \cup {<<Chunk("Thinking", None)>>}

\* What readline returns.
ReadResults ==
    {[kind |-> "Line", line |-> l] :
        l \in {EMPTY, <<" ", " ">>, HI, <<" ">> \o EXIT_COMMAND \o <<" ">>}}
    \cup {[kind |-> k, line |-> EMPTY] : k \in {"Eof", "Interrupted", "Error"}}

NoEnv == [spawn |-> FALSE, code |-> None, stdout |-> EMPTY, stderr |-> EMPTY,
          net |-> FALSE, success |-> FALSE, html |-> EMPTY, results |-> <<>>]

CommandEnvs ==
    { NoEnv,
      [NoEnv EXCEPT !.spawn = TRUE, !.code = Some(0), !.stdout = HI],
      [NoEnv EXCEPT !.spawn = TRUE, !.code = Some(1), !.stderr = <<"e">>],
      [NoEnv EXCEPT !.spawn = TRUE] }

NetEnvs ==
    { NoEnv,
      [NoEnv EXCEPT !.net = TRUE, !.html = <<"C", "a", "p", "t", "c", "h", "a">>],
      [NoEnv EXCEPT !.net = TRUE, !.success = TRUE, !.html = NO_RESULTS],
      [NoEnv EXCEPT !.net = TRUE, !.success = TRUE, !.html = HI, !.results = <<HI>>] }

\* The answers the environment may give a tool.
Envs(name) ==
    IF name = N_run_command THEN CommandEnvs
    ELSE IF name \in {N_search_web, N_fetch_url} THEN NetEnvs
    ELSE {NoEnv}

InitialFs == [files |-> (F :> (AB \o NL \o CD)), dirs |-> {DOT}]

(***************************************************************************)
(* The state of the turn controller.                                       *)
(***************************************************************************)
VARIABLES
    pc,             \* where run_chat is
    parent_id,      \* the thread pointer
    request,        \* the completion request last issued
    stream,         \* the chunks the request in flight has yet to deliver
    final_message,  \* handle_stream's final_message
    current_msg,    \* run_chat's current_msg
    rx,             \* the receiver the turn subscribed
    rx_inner,       \* the receiver the corrective re-prompt subscribed
    last_send,      \* what the last tx_task.send returned
    invocations,    \* handle_tool_calls' invocations
    results,        \* handle_tool_calls' results
    fs,             \* the files on disk
    out,            \* the last thing the controller printed
    call_in,        \* the input of a function checked on its own
    call_out        \* its output

turn == <<pc, parent_id, request, stream, final_message, current_msg, invocations,
          results, out>>
chan == <<rx, rx_inner, last_send>>
call == <<call_in, call_out>>
vars == <<turn, chan, fs, call>>

Prompt(kind, system, text, entries) ==
    [kind |-> kind, system |-> system, text |-> text, entries |-> entries]

Request(site, prompt, parent) == [site |-> site, prompt |-> prompt, parent_id |-> parent]

NoRequest == Request("none", Prompt("none", FALSE, EMPTY, <<>>), None)

Init ==
    /\ pc = "AwaitingInput"
    /\ parent_id \in MessageIds
    /\ request = NoRequest
    /\ stream = <<>>
    /\ final_message = None
    /\ current_msg = None
    /\ rx = "none"
    /\ rx_inner = "none"
    /\ last_send = "none"
    /\ invocations = <<>>
    /\ results = <<>>
    /\ fs = InitialFs
    /\ out = "banner"
    /\ call_in = <<>>
    /\ call_out = <<>>

(***************************************************************************)
(* The cancellation broadcast.  A receiver is "none" (not subscribed, or   *)
(* dropped), "empty" (subscribed, nothing to receive) or "ready" (recv     *)
(* would return at once: a value, or Lagged, which the select arm takes    *)
(* as well).                                                               *)
(***************************************************************************)
\* tx.subscribe(): a new receiver sees only what is sent after it.
Subscribe == "empty"

\* A send that is kept for whoever subscribes next.
BroadcastQueued(r) == "ready"

\* What tx.send does to a receiver.
Broadcast(r) == IF r = "none" THEN "none" ELSE "ready"

\* The ctrl_c task: every interrupt is sent to the receivers there are.
Interrupt ==
    /\ pc \notin {"Exited", "Failed", "Panicked"}
    /\ last_send' = IF rx = "none" /\ rx_inner = "none" THEN "dropped" ELSE "delivered"
    /\ rx' = Broadcast(rx)
    /\ rx_inner' = Broadcast(rx_inner)
    /\ UNCHANGED <<turn, fs, call>>

(***************************************************************************)
(* run_chat: reading input and the first request of a turn.                *)
(***************************************************************************)
\* The prompt of the first request of a turn.
FirstPrompt(pid, trimmed) == Prompt("user", pid = None, trimmed, <<>>)

\* A request anchored where the request before it was.
StartStreamAtOldAnchor(site, prompt) ==
    /\ request' = Request(site, prompt, request.parent_id)
    /\ stream' \in Streams
    /\ final_message' = None
    /\ pc' = "Streaming"

\* api.complete_stream and the start of handle_stream on what it returns.
StartStream(site, prompt) ==
    /\ request' = Request(site, prompt, parent_id)
    /\ stream' \in Streams
    /\ final_message' = None
    /\ pc' = "Streaming"

\* A stream left open when handle_stream returns.
KeptOpen(s) == s

\* handle_stream takes the stream by value: it is dropped, and the request
\* with it, when handle_stream returns.
Dropped(s) == <<>>

\* The turn is over: back to the prompt, the receivers dropped.
EndTurn ==
    /\ pc' = "AwaitingInput"
    /\ current_msg' = None
    /\ final_message' = None
    /\ stream' = Dropped(stream)
    /\ invocations' = <<>>
    /\ results' = <<>>
    /\ rx' = "none"
    /\ rx_inner' = "none"

\* A read that sends nothing, taking only an empty line for a blank one.
SkipsEmptyOnly(r, trimmed) == r.kind # "Line" \/ r.line = <<>>

\* Err(ReadlineError::Eof) => break, and trimmed == "/exit" => break.
Quits(r, trimmed) == r.kind = "Eof" \/ (r.kind = "Line" /\ trimmed = EXIT_COMMAND)

\* Err(Interrupted) and Err(_) => continue, and trimmed.is_empty() => continue.
Skips(r, trimmed) == r.kind # "Line" \/ trimmed = <<>>

\* One pass of the outer loop of run_chat on what readline returned, up to
\* the request it sends.
OnInput(r) ==
    LET trimmed == Trim(r.line)
    IN  IF Quits(r, trimmed)
        THEN /\ pc' = "Exited"
             /\ out' = "prompt"
             /\ UNCHANGED <<parent_id, request, stream, final_message, current_msg,
                            invocations, results, chan>>
        ELSE IF Skips(r, trimmed)
        THEN /\ out' = (IF r.kind = "Error" THEN "input_error" ELSE "prompt")
             /\ UNCHANGED <<pc, parent_id, request, stream, final_message,
                            current_msg, invocations, results, chan>>
        ELSE /\ StartStream("initial", FirstPrompt(parent_id, trimmed))
             /\ rx' = Subscribe
             /\ out' = "prompt"
             /\ UNCHANGED <<parent_id, current_msg, invocations, results,
                            rx_inner, last_send>>

ReadInput ==
    /\ pc = "AwaitingInput"
    /\ \E r \in ReadResults : OnInput(r)
    /\ UNCHANGED <<fs, call>>

(***************************************************************************)
(* handle_stream, and what its caller does with what it returns.           *)
(***************************************************************************)
\* The receiver the stream in flight is raced against.
Receiver == IF request.site = "corrective" THEN rx_inner ELSE rx

\* A cancelled stream returning what it had collected.
CancelledKeepsMessage(collected) == collected

\* What handle_stream returns when the cancellation wins.
Cancelled(collected) == None

\* A commit that clears the thread pointer.
ResetPointer(msg) == None

\* The thread pointer after a commit: parent_id = current_msg.message_id.
CommittedId(msg) == msg.message_id

\* The caller: nothing returned ends the turn; a message is committed.
AfterStream(returned) ==
    IF returned = None
    THEN /\ EndTurn
         /\ UNCHANGED <<parent_id, request, last_send>>
    ELSE /\ parent_id' = CommittedId(Unwrap(returned))
         /\ current_msg' = returned
         /\ final_message' = None
         /\ stream' = Dropped(stream)
         /\ rx_inner' = "none"
         /\ pc' = "LoopHead"
         /\ UNCHANGED <<request, invocations, results, rx, last_send>>

\* The stream yields a chunk and the chunk wins the race.
StreamChunk ==
    /\ pc = "Streaming"
    /\ stream # <<>>
    /\ stream' = Tail(stream)
    /\ final_message' = IF Head(stream).kind = "Message" THEN Head(stream).msg
                        ELSE final_message
    /\ out' = "chunk"
    /\ UNCHANGED <<pc, parent_id, request, current_msg, invocations, results, chan, fs,
                   call>>

\* The stream yields an error: handle_stream, run_chat and main return it.
StreamError ==
    /\ pc = "Streaming"
    /\ pc' = "Failed"
    /\ UNCHANGED <<parent_id, request, stream, final_message, current_msg, invocations,
                   results, out, chan, fs, call>>

\* An empty message returned for a stream that delivered none.
ReturnedOrDefault(final) ==
    IF final = None THEN Some([message_id |-> None, content |-> EMPTY]) ELSE final

\* Ok(final_message)
Returned(final) == final

\* The stream is over: handle_stream returns final_message.
StreamEnd ==
    /\ pc = "Streaming"
    /\ stream = <<>>
    /\ AfterStream(Returned(final_message))
    /\ UNCHANGED <<out, fs, call>>

\* The receiver wins the race.
StreamCancel ==
    /\ pc = "Streaming"
    /\ Receiver = "ready"
    /\ out' = "interrupted"
    /\ AfterStream(Cancelled(final_message))
    /\ UNCHANGED <<fs, call>>

(***************************************************************************)
(* The loop of run_chat on a committed message, and handle_tool_calls.     *)
(***************************************************************************)
\* is_empty without the trim.
IsEmptyText(content) == content = <<>>

\* current_msg.content.trim().is_empty()
IsBlank(content) == Trim(content) = <<>>

\* The corrective re-prompt for a blank message.
Reprompt ==
    /\ pc = "LoopHead"
    /\ IsBlank(Unwrap(current_msg).content)
    /\ out' = "empty_warning"
    /\ StartStream("corrective", Prompt("warning", FALSE, EMPTY, <<>>))
    /\ rx_inner' = Subscribe
    /\ UNCHANGED <<parent_id, current_msg, invocations, results, rx, last_send, fs, call>>

\* A parse that clears the thread pointer.
ParseToolsResetting ==
    /\ pc = "LoopHead"
    /\ ~IsBlank(Unwrap(current_msg).content)
    /\ LET parsed == ParseInvocations(Unwrap(current_msg).content)
       IN  IF parsed = <<>>
           THEN /\ EndTurn
                /\ parent_id' = None
                /\ UNCHANGED <<request, out, last_send>>
           ELSE /\ invocations' = parsed
                /\ results' = <<>>
                /\ pc' = "ExecutingTools"
                /\ parent_id' = None
                /\ UNCHANGED <<request, stream, final_message, current_msg, out, chan>>
    /\ UNCHANGED <<fs, call>>

\* handle_tool_calls up to its first await: parse, and return None when
\* there is no invocation, which ends the turn.
ParseTools ==
    /\ pc = "LoopHead"
    /\ ~IsBlank(Unwrap(current_msg).content)
    /\ LET parsed == ParseInvocations(Unwrap(current_msg).content)
       IN  IF parsed = <<>>
           THEN /\ EndTurn
                /\ UNCHANGED <<parent_id, request, out, last_send>>
           ELSE /\ invocations' = parsed
                /\ results' = <<>>
                /\ pc' = "ExecutingTools"
                /\ UNCHANGED <<parent_id, request, stream, final_message, current_msg,
                               out, chan>>
    /\ UNCHANGED <<fs, call>>

\* The entry results gets for an invocation: "TOOL RESULT for <name>:" with
\* the output, or "TOOL <name> failed:" with the error.
Entry(tool_name, res) ==
    [label |-> IF res.tag = "Ok" THEN "TOOL RESULT for" ELSE "TOOL failed",
     tool |-> tool_name, kind |-> res.kind, file |-> res.file, text |-> res.text]

\* results.push put at the front.
PushFront(entries, e) == <<e>> \o entries

\* results.push
Push(entries, e) == Append(entries, e)

\* One round of the for loop over the invocations.
ExecTool ==
    /\ pc = "ExecutingTools"
    /\ Len(results) < Len(invocations)
    /\ LET inv == invocations[Len(results) + 1]
       IN  \E env \in Envs(inv[1]) :
             LET o == execute_tool(inv[1], inv[2], fs, env)
             IN  IF o.res.tag = "Panic"
                 THEN /\ pc' = "Panicked"
                      /\ UNCHANGED <<results, out, fs>>
                 ELSE /\ results' = Push(results, Entry(inv[1], o.res))
                      /\ fs' = o.fs
                      /\ out' = (IF o.res.tag = "Ok" THEN "tool_status" ELSE "tool_failed")
                      /\ pc' = "ExecutingTools"
    /\ UNCHANGED <<parent_id, request, stream, final_message, current_msg, invocations,
                   chan, call>>

\* The follow-up request with the results, raced against the turn's receiver.
SendFollowUp ==
    /\ pc = "ExecutingTools"
    /\ Len(results) = Len(invocations)
    /\ StartStream("followup", Prompt("results", FALSE, EMPTY, results))
    /\ invocations' = <<>>
    /\ results' = <<>>
    /\ UNCHANGED <<parent_id, current_msg, out, chan, fs, call>>

\* A step of the controller that no user action is needed for.
Progress ==
    \/ StreamChunk
    \/ StreamEnd
    \/ Reprompt
    \/ ParseTools
    \/ ExecTool
    \/ SendFollowUp

Next ==
    \/ ReadInput
    \/ Interrupt
    \/ StreamError
    \/ StreamCancel
    \/ Progress

Spec == Init /\ [][Next]_vars

\* The runtime runs the controller and the service answers every request.
FairSpec == Spec /\ WF_vars(Progress)

(***************************************************************************)
(* The parser on its own: every text of at most MaxLines lines of the      *)
(* pool is parsed.                                                         *)
(***************************************************************************)
FOO == <<"f", "o", "o">>
BAR == <<"b", "a", "r">>
BAZ == <<"b", "a", "z">>

LinePool ==
    { ToolLine(FOO, BAR),
      TOOL_PREFIX \o SPACE \o FOO,
      <<" ">> \o TOOL_PREFIX \o FOO \o <<" ", " ">> \o BAR \o <<" ">>,
      TOOL_PREFIX \o FOO \o <<"\t">> \o BAR,
      BAZ,
      EMPTY,
      <<" ", "q", " ">> }

RECURSIVE SeqsUpTo(_, _)
SeqsUpTo(S, n) ==
    IF n = 0 THEN {<<>>}
    ELSE LET shorter == SeqsUpTo(S, n - 1)
         IN  shorter \cup {Append(q, x) : q \in {r \in shorter : Len(r) = n - 1}, x \in S}

Texts == {Join(ls, NL) : ls \in SeqsUpTo(LinePool, MaxLines) \ {<<>>}}

\* The controller before its first turn, with no thread to resume.
Fresh ==
    /\ pc = "AwaitingInput"
    /\ parent_id = None
    /\ request = NoRequest
    /\ stream = <<>>
    /\ final_message = None
    /\ current_msg = None
    /\ rx = "none"
    /\ rx_inner = "none"
    /\ last_send = "none"
    /\ invocations = <<>>
    /\ results = <<>>
    /\ fs = InitialFs
    /\ out = "banner"

ParseInit ==
    /\ Fresh
    /\ call_in \in Texts
    /\ call_out = None

ParseCall ==
    /\ call_out = None
    /\ call_out' = Some(ParseInvocations(call_in))
    /\ UNCHANGED <<turn, chan, fs, call_in>>

ParseSpec == ParseInit /\ [][ParseCall]_vars

(***************************************************************************)
(* The patch handler on its own: every argument of at most MaxBlocks       *)
(* blocks of the pool is applied to every content of the pool.             *)
(***************************************************************************)
BlockPool ==
    { <<AB, XY>>, <<<<"a">>, <<"b">>>>, <<XY, <<"a">>>>, <<CD, EMPTY>>, <<ZZ, AB>>,
      <<<<"b">>, <<"b", "b">>>>, <<EMPTY, <<"-">>>> }

ContentPool == { AB \o NL \o CD, <<"a", " ", "a", " ", "a">>, <<"a", "b", "a", "b">> }

\* The argument the model writes for a file and its blocks.
PatchArg(file_path, blocks) ==
    file_path \o NL \o Join([i \in 1..Len(blocks) |-> Block(blocks[i][1], blocks[i][2])], NL)

PatchInit ==
    /\ Fresh
    /\ call_in \in [content : ContentPool, blocks : SeqsUpTo(BlockPool, MaxBlocks) \ {<<>>}]
    /\ call_out = None

PatchCall ==
    /\ call_out = None
    /\ call_out' = Some(apply_search_replace_handler(
                            PatchArg(F, call_in.blocks),
                            [InitialFs EXCEPT !.files[F] = call_in.content]))
    /\ UNCHANGED <<turn, chan, fs, call_in>>

PatchSpec == PatchInit /\ [][PatchCall]_vars

(***************************************************************************)
(* The patch handler on block texts of every shape: the markers, newlines  *)
(* and other text in every order, well formed or not.                      *)
(***************************************************************************)
SyntaxTokens == {SEARCH_MARKER, SEPARATOR_MARKER, REPLACE_MARKER, NL, <<"a">>}

RECURSIVE Concat(_)
Concat(parts) == IF parts = <<>> THEN <<>> ELSE Head(parts) \o Concat(Tail(parts))

SyntaxArgs == {F \o NL \o Concat(ts) : ts \in SeqsUpTo(SyntaxTokens, MaxTokens) \ {<<>>}}

SyntaxInit ==
    /\ Fresh
    /\ call_in \in SyntaxArgs
    /\ call_out = None

SyntaxCall ==
    /\ call_out = None
    /\ call_out' = Some(apply_search_replace_handler(call_in, InitialFs))
    /\ UNCHANGED <<turn, chan, fs, call_in>>

SyntaxSpec == SyntaxInit /\ [][SyntaxCall]_vars

(***************************************************************************)
(* The command handler on its own, with the entry handle_tool_calls makes  *)
(* of its result: every exit status, stdout and stderr of the pools, and   *)
(* the command that could not be spawned.                                  *)
(***************************************************************************)
ExitPool == {None, Some(0), Some(1), Some(2), Some(127)}

OutputPool == {EMPTY, HI, <<"a", "\n">>, <<"\n">>, <<"e", " ", "r">>}

CommandInit ==
    /\ Fresh
    /\ call_in \in {NoEnv}
                   \cup {[NoEnv EXCEPT !.spawn = TRUE, !.code = c, !.stdout = o, !.stderr = e] :
                           c \in ExitPool, o \in OutputPool, e \in OutputPool}
    /\ call_out = None

CommandCall ==
    /\ call_out = None
    /\ call_out' = Some(Entry(N_run_command,
                              run_command_handler(<<"l", "s">>, InitialFs, call_in).res))
    /\ UNCHANGED <<turn, chan, fs, call_in>>

CommandSpec == CommandInit /\ [][CommandCall]_vars

(***************************************************************************)
(* The web search handler on its own: every query, status, body and list   *)
(* of extracted results of the pools.                                      *)
(***************************************************************************)
QueryPool == {<<"q">>, <<" ", "q", "\n">>, <<" ">>}

HtmlPool ==
    { HI, EMPTY, NO_RESULTS, NO_RESULTS_LOWER,
      <<"C", "a", "p", "t", "c", "h", "a">>,
      <<"a", " ">> \o UNUSUAL_TRAFFIC,
      <<"B", "L", "O", "C", "K", "E", "D", "!">> }

ResultPool == {<<>>, <<HI>>, <<HI, AB>>}

SearchInit ==
    /\ Fresh
    /\ call_in \in [query : QueryPool,
                    env : {NoEnv} \cup {[NoEnv EXCEPT !.net = TRUE, !.success = ok,
                                                        !.html = h, !.results = r] :
                                          ok \in BOOLEAN, h \in HtmlPool, r \in ResultPool}]
    /\ call_out = None

SearchCall ==
    /\ call_out = None
    /\ call_out' = Some(search_web_handler(call_in.query, InitialFs, call_in.env))
    /\ UNCHANGED <<turn, chan, fs, call_in>>

SearchSpec == SearchInit /\ [][SearchCall]_vars

(***************************************************************************)
(* One read at the prompt on its own: every thread pointer and every read  *)
(* result of the pool, with the controller's own step for it.              *)
(***************************************************************************)
InputPool ==
    ReadResults
    \cup {[kind |-> "Line", line |-> l] :
            l \in {<<"\t">>, <<"\n">>, <<" ", "\t", " ">>, EXIT_COMMAND,
                   EXIT_COMMAND \o <<"x">>, <<" ">> \o HI, <<"/">>}}

InputInit ==
    /\ pc = "AwaitingInput"
    /\ parent_id \in MessageIds
    /\ request = NoRequest
    /\ stream = <<>>
    /\ final_message = None
    /\ current_msg = None
    /\ rx = "none"
    /\ rx_inner = "none"
    /\ last_send = "none"
    /\ invocations = <<>>
    /\ results = <<>>
    /\ fs = InitialFs
    /\ out = "banner"
    /\ call_in \in InputPool
    /\ call_out = None

InputCall ==
    /\ call_out = None
    /\ pc = "AwaitingInput"
    /\ OnInput(call_in)
    /\ call_out' = Some(call_in.kind)
    /\ UNCHANGED <<fs, call_in>>

InputSpec == InputInit /\ [][InputCall]_vars

(***************************************************************************)
(* The patch handler on an argument that goes on after its blocks: at most *)
(* MaxBlocks blocks of the pool, none included, and then a tail of the     *)
(* pool, on every content of the pool.                                     *)
(***************************************************************************)
TailPool ==
    { EMPTY, HI,
      SEARCH_MARKER \o NL \o AB,
      SEARCH_MARKER \o NL \o AB \o NL \o SEPARATOR_MARKER \o NL \o XY,
      SEARCH_MARKER }

TailArg(blocks, tail) ==
    IF blocks = <<>> THEN F \o NL \o tail ELSE PatchArg(F, blocks) \o NL \o tail

TailInit ==
    /\ Fresh
    /\ call_in \in [content : ContentPool, blocks : SeqsUpTo(BlockPool, MaxBlocks),
                    tail : TailPool]
    /\ call_out = None

TailCall ==
    /\ call_out = None
    /\ call_out' = Some(apply_search_replace_handler(
                            TailArg(call_in.blocks, call_in.tail),
                            [InitialFs EXCEPT !.files[F] = call_in.content]))
    /\ UNCHANGED <<turn, chan, fs, call_in>>

TailSpec == TailInit /\ [][TailCall]_vars

(***************************************************************************)
(* C1.  Within one turn the tool loop is bounded: with a model whose every *)
(* reply holds a tool invocation the controller still comes back to        *)
(* AwaitingInput.  Stated on the fair behaviours: again and again the      *)
(* controller is out of the turn, or the last committed reply held no      *)
(* invocation.                                                             *)
(***************************************************************************)
OutOfTurn == pc \in {"AwaitingInput", "Exited", "Failed", "Panicked"}

LastReplyHasNoTool ==
    current_msg = None \/ ParseInvocations(Unwrap(current_msg).content) = <<>>

C1_BoundedContinuation == []<>(OutOfTurn \/ LastReplyHasNoTool)

(***************************************************************************)
(* C2.  A cancellation that wins the race abandons the stream, at each of  *)
(* the three sites: the controller is back in AwaitingInput, the thread    *)
(* pointer is the one the request was anchored at, and nothing of the      *)
(* abandoned stream is parsed or executed.                                 *)
(***************************************************************************)
C2_CancelAbandonsStream ==
    [][out' = "interrupted" /\ pc = "Streaming"
          => /\ pc' = "AwaitingInput"
             /\ parent_id' = request.parent_id
             /\ parent_id' = parent_id
             /\ current_msg' = None
             /\ invocations' = <<>>
             /\ results' = <<>>
             /\ fs' = fs
             /\ request' = request]_vars

C2_Witness ==
    /\ pc = "AwaitingInput"
    /\ out = "interrupted"
    /\ request.site = "followup"
    /\ IsSome(request.parent_id)

(***************************************************************************)
(* C3.  The thread pointer changes only in the step in which a stream that *)
(* ran to its end returns its final message, and to the id of that         *)
(* message.                                                                *)
(***************************************************************************)
C3_PointerOnlyOnCommit ==
    [][parent_id' # parent_id
          => /\ pc = "Streaming"
             /\ stream = <<>>
             /\ IsSome(final_message)
             /\ parent_id' = Unwrap(final_message).message_id
             /\ out' # "interrupted"
             /\ fs' = fs]_vars

C3_Witness ==
    /\ pc = "LoopHead"
    /\ request.site = "followup"
    /\ parent_id # request.parent_id
    /\ parent_id = Unwrap(current_msg).message_id

(***************************************************************************)
(* C4.  No tool failure aborts the controller: every round of the loop     *)
(* over the invocations records an entry for its invocation, and the loop  *)
(* ends with the follow-up request that carries the entries.               *)
(***************************************************************************)
C4_ToolFailureNeverAborts ==
    [][pc = "ExecutingTools" /\ <<pc, results>>' # <<pc, results>>
          => \/ /\ pc' = "ExecutingTools"
                /\ Len(results) < Len(invocations)
                /\ Len(results') = Len(results) + 1
                /\ results'[Len(results')].tool = invocations[Len(results')][1]
             \/ /\ pc' = "Streaming"
                /\ Len(results) = Len(invocations)
                /\ request'.prompt.entries = results]_vars

(***************************************************************************)
(* C5.  The invocations of a message are executed one at a time in their   *)
(* textual order, each on the files the one before it left, and the        *)
(* follow-up request holds one entry per invocation in that order.         *)
(***************************************************************************)
C5_SequentialInOrder ==
    [][/\ (pc = "ExecutingTools" /\ pc' = "ExecutingTools" /\ results' # results)
            => LET n == Len(results) + 1
               IN  /\ Len(results') = n
                   /\ SubSeq(results', 1, n - 1) = results
                   /\ invocations' = invocations
                   /\ \E env \in Envs(invocations[n][1]) :
                        LET o == execute_tool(invocations[n][1], invocations[n][2], fs, env)
                        IN  /\ results'[n] = Entry(invocations[n][1], o.res)
                            /\ fs' = o.fs
       /\ (pc = "ExecutingTools" /\ pc' = "Streaming")
            => /\ Len(request'.prompt.entries) = Len(invocations)
               /\ \A k \in 1..Len(invocations) :
                    request'.prompt.entries[k].tool = invocations[k][1]
               /\ request'.prompt.entries = results]_vars

C5_Witness ==
    /\ pc = "Streaming"
    /\ request.site = "followup"
    /\ Len(request.prompt.entries) = 2
    /\ request.prompt.entries[1].label = "TOOL failed"
    /\ request.prompt.entries[2].label = "TOOL RESULT for"

(***************************************************************************)
(* C6, C7.  What a patch call has to do, stated without the handler: the   *)
(* search text occurs at some offset; a sweep over the content replaces    *)
(* every occurrence; the blocks are folded in their order.                 *)
(***************************************************************************)
Occurs(content, search) ==
    \E i \in 0..(Len(content) - Len(search)) :
        SubSeq(content, i + 1, i + Len(search)) = search

RECURSIVE EveryOccurrence(_, _, _, _)
EveryOccurrence(content, search, replace, i) ==
    IF i > Len(content) THEN (IF search = <<>> THEN replace ELSE <<>>)
    ELSE IF search = <<>>
    THEN replace \o <<content[i]>> \o EveryOccurrence(content, search, replace, i + 1)
    ELSE IF i + Len(search) - 1 <= Len(content)
            /\ SubSeq(content, i, i + Len(search) - 1) = search
    THEN replace \o EveryOccurrence(content, search, replace, i + Len(search))
    ELSE <<content[i]>> \o EveryOccurrence(content, search, replace, i + 1)

\* The content after the first n blocks.
RECURSIVE Folded(_, _, _)
Folded(content, blocks, n) ==
    IF n = 0 THEN content
    ELSE EveryOccurrence(Folded(content, blocks, n - 1), blocks[n][1], blocks[n][2], 1)

\* The blocks whose search text is absent from the content the blocks before
\* them produce.
AbsentBlocks(content, blocks) ==
    {k \in 1..Len(blocks) : ~Occurs(Folded(content, blocks, k - 1), blocks[k][1])}

PatchCalled == IsSome(call_out)

(***************************************************************************)
(* C6.  A patch call is all-or-nothing on disk: when the search text of a  *)
(* block is absent from the content in memory the call fails with the      *)
(* not-found error that names the file and that search text, and the file  *)
(* is as before the call; the file is written once, and only when every    *)
(* block succeeded.                                                        *)
(***************************************************************************)
C6_PatchAllOrNothing ==
    PatchCalled =>
        LET absent == AbsentBlocks(call_in.content, call_in.blocks)
        IN  /\ absent # {}
                => LET k == CHOOSE k \in absent : \A j \in absent : k <= j
                   IN  /\ Unwrap(call_out).res = Err("SearchNotFound", F, call_in.blocks[k][1])
                       /\ Unwrap(call_out).fs = [InitialFs EXCEPT !.files[F] = call_in.content]
                       /\ Unwrap(call_out).writes = 0
            /\ Unwrap(call_out).writes \in {0, 1}
            /\ Unwrap(call_out).writes = 1 <=> absent = {}
            /\ Unwrap(call_out).writes = 1 <=> Unwrap(call_out).res.tag = "Ok"

\* The first block matched and changed the content in memory, the second
\* was not found.
C6_Witness ==
    /\ PatchCalled
    /\ Len(call_in.blocks) = 2
    /\ Occurs(call_in.content, call_in.blocks[1][1])
    /\ Folded(call_in.content, call_in.blocks, 1) # call_in.content
    /\ AbsentBlocks(call_in.content, call_in.blocks) = {2}
    /\ Unwrap(call_out).res.tag = "Err"
    /\ Unwrap(call_out).fs.files[F] = call_in.content

(***************************************************************************)
(* C7.  A successful patch call writes the fold of its blocks, each block  *)
(* replacing every occurrence of its search text in what the blocks before *)
(* it produced, and reports the number of parsed blocks.                   *)
(***************************************************************************)
C7_PatchFoldsAllOccurrences ==
    (PatchCalled /\ Unwrap(call_out).res.tag = "Ok") =>
        /\ Unwrap(call_out).fs.files[F]
             = Folded(call_in.content, call_in.blocks, Len(call_in.blocks))
        /\ Unwrap(call_out).res
             = Ok(APPLIED \o ToDecimal(Len(call_in.blocks)) \o BLOCKS_TO \o F)

\* The second block is found only in what the first one wrote, three times.
C7_Witness ==
    /\ PatchCalled
    /\ call_in.content = <<"a", " ", "a", " ", "a">>
    /\ call_in.blocks = << <<<<"a">>, <<"b">>>>, <<<<"b">>, <<"b", "b">>>> >>
    /\ Unwrap(call_out).res.tag = "Ok"
    /\ Unwrap(call_out).fs.files[F] = <<"b", "b", " ", "b", "b", " ", "b", "b">>

(***************************************************************************)
(* C8.  The argument of every invocation is its first fragment when the    *)
(* body is empty, its body when the first fragment is empty, and otherwise *)
(* the fragment, a newline and the body, where the body is the lines after *)
(* the marker line up to the next marker line or the end of the text       *)
(* joined by newlines; the lines before the first marker line are ignored. *)
(***************************************************************************)
MarkerLines(lines) == {i \in 1..Len(lines) : StartsWith(Trim(lines[i]), TOOL_PREFIX)}

\* The k-th marker line.
MarkerAt(lines, k) ==
    CHOOSE m \in MarkerLines(lines) :
        Cardinality({j \in MarkerLines(lines) : j < m}) = k - 1

\* The lines after marker line m up to the next marker line, joined.
BodyOf(lines, m) ==
    LET next == CHOOSE n \in (m + 1)..(Len(lines) + 1) :
                   /\ n \in MarkerLines(lines) \cup {Len(lines) + 1}
                   /\ \A j \in (m + 1)..(n - 1) : j \notin MarkerLines(lines)
    IN  Join([j \in 1..(next - 1 - m) |-> lines[m + j]], NL)

FirstFragment(line) == SplitN2(Trim(Drop(Trim(line), PrefixLen)))[2]

Assembled(fragment, body) ==
    CASE body = <<>> -> fragment
      [] body # <<>> /\ fragment = <<>> -> body
      [] OTHER -> fragment \o NL \o body

C8_ArgumentAssembly ==
    IsSome(call_out) =>
        LET lines == Lines(call_in)
            parsed == Unwrap(call_out)
        IN  /\ Len(parsed) = Cardinality(MarkerLines(lines))
            /\ \A k \in 1..Len(parsed) :
                 parsed[k][2] = Assembled(FirstFragment(lines[MarkerAt(lines, k)]),
                                          BodyOf(lines, MarkerAt(lines, k)))

\* A line before the first marker, an empty first fragment and a body.
C8_Witness ==
    /\ call_in = Join(<<BAZ, TOOL_PREFIX \o SPACE \o FOO, BAZ>>, NL)
    /\ call_out = Some(<< <<FOO, BAZ>> >>)

(***************************************************************************)
(* C9.  A committed message that is not blank and has no marker line       *)
(* parses to no invocation and ends the turn: no tool is executed and no   *)
(* further request is sent.                                                *)
(***************************************************************************)
NoMarkerLine(content) ==
    \A i \in 1..Len(Lines(content)) : ~StartsWith(Trim(Lines(content)[i]), TOOL_PREFIX)

FinalAnswer ==
    /\ pc = "LoopHead"
    /\ Trim(Unwrap(current_msg).content) # <<>>
    /\ NoMarkerLine(Unwrap(current_msg).content)

C9_NoMarkerEndsTurn ==
    [][FinalAnswer
          => /\ ParseInvocations(Unwrap(current_msg).content) = <<>>
             /\ pc' # pc => /\ pc' = "AwaitingInput"
                            /\ request' = request
                            /\ invocations' = <<>>
                            /\ results' = <<>>
                            /\ fs' = fs
                            /\ parent_id' = parent_id]_vars

C9_Witness ==
    /\ FinalAnswer
    /\ Contains(Unwrap(current_msg).content, TOOL_PREFIX)

(***************************************************************************)
(* C10.  An interrupt sent while no turn is subscribed is dropped: when    *)
(* the last interrupt found no receiver, no receiver holds a signal, so    *)
(* the stream of the next turn cannot be cancelled by it.                  *)
(***************************************************************************)
C10_IdleInterruptDropped ==
    /\ pc = "AwaitingInput" => rx = "none" /\ rx_inner = "none"
    /\ last_send = "dropped" => rx # "ready" /\ rx_inner # "ready"

C10_Witness ==
    /\ last_send = "dropped"
    /\ pc = "Streaming"
    /\ request.site = "initial"
    /\ rx = "empty"

(***************************************************************************)
(* C11.  An interrupt raised while the turn awaits no stream is not        *)
(* retained: an interrupt sent while the tools are executed leaves nothing *)
(* in the receiver of the turn, which the follow-up stream that starts     *)
(* afterwards is raced against.                                            *)
(***************************************************************************)
C11_InterruptNotRetained ==
    [][(pc = "ExecutingTools" /\ pc' = "ExecutingTools" /\ rx = "empty" /\ rx' # rx)
          => rx' # "ready"]_vars

(***************************************************************************)
(* C12.  At most one completion request is in flight: a new stream is      *)
(* opened only when the controller is not streaming and the stream before  *)
(* it is gone, having ended or having been abandoned.                      *)
(***************************************************************************)
NewStream == pc' = "Streaming" /\ stream' # stream /\ (stream = <<>> \/ stream' # Tail(stream))

C12_OneRequestInFlight ==
    [][NewStream => pc # "Streaming" /\ stream = <<>>]_vars

\* A request is issued in the turn after a cancelled stream that had chunks
\* left to deliver.
C12_Witness ==
    /\ pc = "Streaming"
    /\ request.site = "initial"
    /\ out = "prompt"
    /\ last_send = "delivered"
    /\ rx = "empty"
    /\ Len(stream) = 2

(***************************************************************************)
(* C13.  A committed message that is empty or all whitespace is not parsed *)
(* and no tool is executed for it, whichever stream produced it: the next  *)
(* thing the controller does is to send the corrective re-prompt.          *)
(***************************************************************************)
AllWhitespace(content) ==
    \A i \in 1..Len(content) : content[i] \in {" ", "\t", "\n", "\r"}

C13_BlankIsReprompted ==
    [][(pc = "LoopHead" /\ AllWhitespace(Unwrap(current_msg).content)
            /\ <<pc, request, invocations, results, fs>>'
                 # <<pc, request, invocations, results, fs>>)
          => /\ pc' = "Streaming"
             /\ request'.site = "corrective"
             /\ request'.prompt.kind = "warning"
             /\ invocations' = <<>>
             /\ results' = <<>>
             /\ fs' = fs]_vars

\* The corrective request for a blank reply to a tool-result follow-up.
C13_Witness ==
    /\ pc = "Streaming"
    /\ request.site = "corrective"
    /\ IsSome(current_msg)
    /\ Unwrap(current_msg).content = <<" ", "\n">>
    /\ parent_id = Some(2)
    /\ fs # InitialFs

(***************************************************************************)
(* C14.  In a new conversation the preamble goes with the first user       *)
(* prompt that is sent and with no later one.                              *)
(***************************************************************************)
NewChatInit == Init /\ parent_id = None

NewChatSpec == NewChatInit /\ [][Next]_vars

C14_PreambleOnlyOnce ==
    [][(pc = "AwaitingInput" /\ pc' = "Streaming")
          => (request'.prompt.system <=> request = NoRequest)]_vars

(***************************************************************************)
(* C15.  A patch argument in which a begin marker is not followed by a     *)
(* separator, or a separator is not followed by an end marker, is answered *)
(* with a syntax error, returned as an error value.                        *)
(***************************************************************************)
RECURSIVE Malformed(_)
Malformed(text) ==
    LET begin == Find(text, SEARCH_MARKER)
        after_begin == Drop(text, begin + Len(SEARCH_MARKER))
        separator == Find(after_begin, SEPARATOR_MARKER)
        after_separator == Drop(after_begin, separator + Len(SEPARATOR_MARKER))
        end == Find(after_separator, REPLACE_MARKER)
    IN  IF begin < 0 THEN FALSE
        ELSE IF separator < 0 \/ end < 0 THEN TRUE
        ELSE Malformed(Drop(after_separator, end + Len(REPLACE_MARKER)))

C15_MalformedIsSyntaxError ==
    (IsSome(call_out) /\ Malformed(call_in))
        => /\ Unwrap(call_out).res.tag = "Err"
           /\ Unwrap(call_out).res.kind \in {"MissingSeparator", "MissingReplace"}
           /\ Unwrap(call_out).fs = InitialFs

(***************************************************************************)
(* C16.  The envelope of a command that ran is the line EXIT_CODE:<code>,  *)
(* -1 standing for a status that is not available, and then the sections   *)
(* there are, stdout before stderr, with a blank line between them, or the *)
(* fixed text when there is no section.                                    *)
(***************************************************************************)
Section(title, text) == IF text = <<>> THEN <<>> ELSE <<title \o <<":", "\n">> \o text>>

ExpectedEnvelope(code, stdout, stderr) ==
    LET sections == Section(<<"s", "t", "d", "o", "u", "t">>, stdout)
                    \o Section(<<"s", "t", "d", "e", "r", "r">>, stderr)
        status == IF code = None THEN <<"-", "1">> ELSE ToDecimal(Unwrap(code))
    IN  <<"E", "X", "I", "T", "_", "C", "O", "D", "E", ":">> \o status \o <<"\n">>
        \o (IF sections = <<>> THEN NO_OUTPUT_TEXT ELSE Join(sections, <<"\n", "\n">>))

C16_CommandEnvelope ==
    (IsSome(call_out) /\ call_in.spawn)
        => Unwrap(call_out).text
             = ExpectedEnvelope(call_in.code, call_in.stdout, call_in.stderr)

\* No exit status, and both sections.
C16_Witness ==
    /\ IsSome(call_out)
    /\ call_in.spawn
    /\ call_in.code = None
    /\ Unwrap(call_out).text
         = <<"E", "X", "I", "T", "_", "C", "O", "D", "E", ":", "-", "1", "\n",
             "s", "t", "d", "o", "u", "t", ":", "\n", "h", "i", "\n", "\n",
             "s", "t", "d", "e", "r", "r", ":", "\n", "e", " ", "r">>

(***************************************************************************)
(* C17.  A command that was spawned yields a tool result with the          *)
(* envelope, whatever its exit status; only a command that could not be    *)
(* spawned yields a tool failure.                                          *)
(***************************************************************************)
C17_NonZeroExitIsResult ==
    IsSome(call_out) =>
        /\ Unwrap(call_out).label = "TOOL failed" <=> ~call_in.spawn
        /\ call_in.spawn
             => /\ Unwrap(call_out).label = "TOOL RESULT for"
                /\ Unwrap(call_out).tool = N_run_command
                /\ StartsWith(Unwrap(call_out).text, EXIT_CODE_PREFIX)

\* A command that exited with status 127.
C17_Witness ==
    /\ IsSome(call_out)
    /\ call_in.spawn
    /\ call_in.code = Some(127)
    /\ Unwrap(call_out).label = "TOOL RESULT for"
    /\ StartsWith(Unwrap(call_out).text, EXIT_CODE_PREFIX \o <<"1", "2", "7", "\n">>)

(***************************************************************************)
(* C18.  A search response whose body holds a blocking marker yields the   *)
(* blocking error, whatever its status.                                    *)
(***************************************************************************)
HoldsIgnoringCase(body, marker) ==
    \E k \in 0..(Len(body) - Len(marker)) :
        \A i \in 1..Len(marker) : LowerChar(body[k + i]) = marker[i]

HasBlockingMarker(body) ==
    \/ HoldsIgnoringCase(body, <<"c", "a", "p", "t", "c", "h", "a">>)
    \/ HoldsIgnoringCase(body, <<"u", "n", "u", "s", "u", "a", "l", " ",
                                 "t", "r", "a", "f", "f", "i", "c">>)
    \/ HoldsIgnoringCase(body, <<"b", "l", "o", "c", "k", "e", "d">>)

C18_BlockingMarkerAnyStatus ==
    (/\ IsSome(call_out)
     /\ call_in.env.net
     /\ \E i \in 1..Len(call_in.query) : ~IsWhitespace(call_in.query[i])
     /\ HasBlockingMarker(call_in.env.html))
        => Unwrap(call_out).res = Err("Blocked", EMPTY, EMPTY)

(***************************************************************************)
(* C19.  Parsing is a function of the text alone and touches nothing: the  *)
(* step that parses a committed message yields what parsing its text       *)
(* yields in any other state, and leaves the thread pointer, the files and *)
(* the request as they are.                                                *)
(***************************************************************************)
ParseStep == pc = "LoopHead" /\ pc' \in {"ExecutingTools", "AwaitingInput"}

C19_ParsingIsPure ==
    [][ParseStep
          => /\ parent_id' = parent_id
             /\ fs' = fs
             /\ request' = request
             /\ pc' = "ExecutingTools"
                  => invocations' = ParseInvocations(Unwrap(current_msg).content)
             /\ pc' = "AwaitingInput"
                  => ParseInvocations(Unwrap(current_msg).content) = <<>>]_vars

\* A message parsed in a later round of the turn, the files already changed.
C19_Witness ==
    /\ pc = "ExecutingTools"
    /\ results = <<>>
    /\ Len(invocations) = 2
    /\ request.site = "followup"
    /\ IsSome(parent_id)
    /\ fs # InitialFs

(***************************************************************************)
(* C20.  The tool name of a marker line is its trimmed remainder up to the *)
(* first whitespace character, so that no tool name holds a space or a     *)
(* tab.                                                                    *)
(***************************************************************************)
UpToWhitespace(text) ==
    LET at == {i \in 1..Len(text) : text[i] \in {" ", "\t", "\n", "\r"}}
    IN  IF at = {} THEN text
        ELSE SubSeq(text, 1, (CHOOSE i \in at : \A j \in at : i <= j) - 1)

C20_NameUpToWhitespace ==
    IsSome(call_out) =>
        LET lines == Lines(call_in)
            parsed == Unwrap(call_out)
        IN  \A k \in 1..Len(parsed) :
              /\ parsed[k][1]
                   = UpToWhitespace(Trim(Drop(Trim(lines[MarkerAt(lines, k)]), PrefixLen)))
              /\ \A i \in 1..Len(parsed[k][1]) : parsed[k][1][i] \notin {" ", "\t"}

(***************************************************************************)
(* C21.  A corrective re-prompt and a tool-result follow-up are anchored   *)
(* at the id of the message that triggered them, which is the thread       *)
(* pointer as that message left it.                                        *)
(***************************************************************************)
C21_AnchoredAtTrigger ==
    [][(pc \in {"LoopHead", "ExecutingTools"} /\ pc' = "Streaming")
          => /\ request'.site \in {"corrective", "followup"}
             /\ request'.parent_id = Unwrap(current_msg).message_id
             /\ request'.parent_id = parent_id
             /\ parent_id' = parent_id]_vars

\* A follow-up anchored at a message other than the one the turn began at,
\* and after it a corrective re-prompt anchored at the reply to it.
C21_Witness ==
    /\ pc = "Streaming"
    /\ request.site = "corrective"
    /\ fs # InitialFs
    /\ request.parent_id = Some(2)
    /\ Unwrap(current_msg).message_id = Some(2)

(***************************************************************************)
(* C22.  Every turn ends without the user: with a model that answers every *)
(* request with a blank message the controller still comes back to         *)
(* AwaitingInput.  Stated on the fair behaviours: again and again the      *)
(* controller is out of the turn, or the last committed reply was not      *)
(* blank.                                                                  *)
(***************************************************************************)
LastReplyNotBlank ==
    current_msg = None \/ ~AllWhitespace(Unwrap(current_msg).content)

C22_BoundedReprompts == []<>(OutOfTurn \/ LastReplyNotBlank)

(***************************************************************************)
(* C24.  A stream that ends without a final message is handled like an     *)
(* abandoned one: the thread pointer is unchanged, nothing is parsed or    *)
(* executed, and the controller is back in AwaitingInput.                  *)
(***************************************************************************)
EndsWithoutMessage ==
    /\ pc = "Streaming"
    /\ stream = <<>>
    /\ final_message = None
    /\ pc' \notin {"Streaming", "Failed"}

C24_NoMessageEndsTurn ==
    [][EndsWithoutMessage
          => /\ pc' = "AwaitingInput"
             /\ parent_id' = parent_id
             /\ parent_id' = request.parent_id
             /\ current_msg' = None
             /\ invocations' = <<>>
             /\ results' = <<>>
             /\ fs' = fs
             /\ request' = request]_vars

\* A tool-result follow-up whose stream has ended with no final message.
C24_Witness ==
    /\ pc = "Streaming"
    /\ request.site = "followup"
    /\ stream = <<>>
    /\ final_message = None
    /\ out = "chunk"
    /\ rx = "empty"

(***************************************************************************)
(* C23.  The quit command and the end of input terminate the controller;   *)
(* a blank line or an interrupt at the prompt neither terminates it nor    *)
(* issues a request nor changes the thread pointer.                        *)
(***************************************************************************)
QuitInput(r) ==
    \/ r.kind = "Eof"
    \/ r.kind = "Line" /\ Trim(r.line) = EXIT_COMMAND

BlankOrInterrupt(r) ==
    \/ r.kind = "Interrupted"
    \/ r.kind = "Line" /\ AllWhitespace(r.line)

C23_QuitAndBlankInput ==
    [][(call_out = None /\ call_out' # None)
          => /\ QuitInput(call_in) => pc' = "Exited"
             /\ BlankOrInterrupt(call_in)
                   => /\ pc' = "AwaitingInput"
                      /\ request' = request
                      /\ stream' = stream
                      /\ parent_id' = parent_id]_vars

\* A whitespace-only line was read with the thread pointer at a message.
C23_Witness ==
    /\ call_out # None
    /\ call_in.kind = "Line"
    /\ call_in.line = <<" ", " ">>
    /\ pc = "AwaitingInput"
    /\ request = NoRequest
    /\ parent_id = Some(1)

(***************************************************************************)
(* C25.  The blocks of a patch argument are all parsed before the file is  *)
(* read: when a block of the argument is malformed, or the argument holds  *)
(* no block, the call fails, no block before the malformed one is applied  *)
(* and the file on disk is as before the call.  The call fails with an     *)
(* error value, or with the panic of the slice at tools.rs:61 when the     *)
(* begin marker is the last text; it is never the not-found error, which   *)
(* only the file's content can give.                                       *)
(***************************************************************************)
HoldsNoBlock(text) == ~Occurs(text, SEARCH_MARKER)

C25_ParsedBeforeApplied ==
    (IsSome(call_out)
     /\ LET text == TailArg(call_in.blocks, call_in.tail)
        IN  Malformed(text) \/ HoldsNoBlock(text))
        => /\ Unwrap(call_out).res.tag # "Ok"
           /\ Unwrap(call_out).res.kind # "SearchNotFound"
           /\ Unwrap(call_out).fs = [InitialFs EXCEPT !.files[F] = call_in.content]
           /\ Unwrap(call_out).writes = 0

\* A block that would change the content, then a block without separator:
\* the call failed on the syntax.
C25_Witness ==
    /\ IsSome(call_out)
    /\ call_in.blocks = << <<AB, XY>> >>
    /\ call_in.content = AB \o NL \o CD
    /\ call_in.tail = SEARCH_MARKER \o NL \o AB
    /\ Unwrap(call_out).res.kind = "MissingSeparator"
    /\ Unwrap(call_out).fs.files[F] = AB \o NL \o CD

=============================================================================
